---- MODULE Spec2Model ----
(***************************************************************************)
(* A model of the MPDB SQL gateway (src/app.py): the metadata store of     *)
(* projects, the backend MySQL server, the owner session, and the request  *)
(* handlers login, logout, create_project, project_execute, generate_jumbo *)
(* and public_query.  SQL texts and project names are sequences of         *)
(* one-character strings, so that the textual operations of the code       *)
(* (strip, split on ';', lower, startswith, the SELECT_RE regex, rstrip    *)
(* of ';', re.sub) are computed character by character.                    *)
(***************************************************************************)
EXTENDS Integers, Sequences, FiniteSets, TLC

(***************************************************************************)
(* Text primitives (Python str methods used by the code).                  *)
(***************************************************************************)
UpperCase == <<"A","B","C","D","E","F","G","H","I","J","K","L","M",
               "N","O","P","Q","R","S","T","U","V","W","X","Y","Z">>
LowerCase == <<"a","b","c","d","e","f","g","h","i","j","k","l","m",
               "n","o","p","q","r","s","t","u","v","w","x","y","z">>
Digits == {"0","1","2","3","4","5","6","7","8","9"}

\* str.isspace for the characters the inputs use
IsSpace(c) == c \in {" ", "\t", "\n"}

\* regex \w (and the complement of the class [^A-Za-z0-9_] of re.sub)
IsWordChar(c) ==
    \/ \E i \in 1..26 : c = UpperCase[i] \/ c = LowerCase[i]
    \/ c \in Digits
    \/ c = "_"

\* str.lower, one character
LowerChar(c) ==
    IF \E i \in 1..26 : c = UpperCase[i]
    THEN LowerCase[CHOOSE i \in 1..26 : c = UpperCase[i]]
    ELSE c

\* str.lower
lower(s) == [i \in 1..Len(s) |-> LowerChar(s[i])]

RECURSIVE lstrip(_)
lstrip(s) == IF s # <<>> /\ IsSpace(Head(s)) THEN lstrip(Tail(s)) ELSE s

RECURSIVE rstrip(_)
rstrip(s) ==
    IF s # <<>> /\ IsSpace(s[Len(s)]) THEN rstrip(SubSeq(s, 1, Len(s) - 1)) ELSE s

\* str.strip()
strip(s) == rstrip(lstrip(s))

\* str.rstrip(';')
RECURSIVE rstrip_semi(_)
rstrip_semi(s) ==
    IF s # <<>> /\ s[Len(s)] = ";" THEN rstrip_semi(SubSeq(s, 1, Len(s) - 1)) ELSE s

\* str.startswith
startswith(s, p) == Len(s) >= Len(p) /\ SubSeq(s, 1, Len(p)) = p

\* the `in` operator on str: p occurs in s
contains(s, p) ==
    \E i \in 1..(Len(s) - Len(p) + 1) : SubSeq(s, i, i + Len(p) - 1) = p

\* str.split(sep) for a one-character separator: "".split(';') = [""]
RECURSIVE split(_, _)
split(s, sep) ==
    IF \E i \in 1..Len(s) : s[i] = sep
    THEN LET i == CHOOSE k \in 1..Len(s) :
                     s[k] = sep /\ \A j \in 1..(k - 1) : s[j] # sep
         IN  <<SubSeq(s, 1, i - 1)>> \o split(SubSeq(s, i + 1, Len(s)), sep)
    ELSE <<s>>

NonBlank(s) == strip(s) # <<>>

\* [s.strip() for s in sql.split(';') if s.strip()]
statements(sql) ==
    LET kept == SelectSeq(split(sql, ";"), NonBlank)
    IN  [i \in 1..Len(kept) |-> strip(kept[i])]

SelectWord == <<"s","e","l","e","c","t">>
LimitWord == <<"l","i","m","i","t">>
LimitClause == <<" ","L","I","M","I","T"," ","5","0","0",";">>

\* (mutant) the prefix test without the word boundary
SELECT_RE_match_prefix(s) == startswith(lower(lstrip(s)), SelectWord)

\* SELECT_RE = re.compile(r'^\s*select\b', re.IGNORECASE); SELECT_RE.match(s)
SELECT_RE_match(s) ==
    LET t == lstrip(s)
    IN  /\ startswith(lower(t), SelectWord)
        /\ IF Len(t) = Len(SelectWord) THEN TRUE
           ELSE ~IsWordChar(t[Len(SelectWord) + 1])

\* s.strip().lower().startswith("select"), the executor's test
\* (mutant) the test of line 97 done with SELECT_RE
is_select_stmt_word(s) == SELECT_RE_match(s)

is_select_stmt(s) == startswith(lower(strip(s)), SelectWord)

is_select_only(sql_text) ==
    LET stmts == statements(sql_text)
    IN  IF stmts = <<>> THEN FALSE
        ELSE \A i \in 1..Len(stmts) : SELECT_RE_match(stmts[i])

\* if "limit" not in sql.lower(): sql = sql.rstrip(';') + " LIMIT 500;"
row_cap(sql) ==
    IF ~contains(lower(sql), LimitWord) THEN rstrip_semi(sql) \o LimitClause ELSE sql

(***************************************************************************)
(* Bounded SQL inputs: texts made of at most MaxChunks chunks.             *)
(***************************************************************************)
MaxChunks == 4

Chunks == { <<"S","e","L","e","c","T">>, <<"s","e","l","e","c","t">>,
            <<"x">>, <<" ">>, <<";">>, <<"*">>, <<"L","i","m","I","t">> }

RECURSIVE Flatten(_)
Flatten(cs) == IF cs = <<>> THEN <<>> ELSE Head(cs) \o Flatten(Tail(cs))

Texts(n) == { Flatten(cs) : cs \in UNION { [1..k -> Chunks] : k \in 0..n } }

(***************************************************************************)
(* State.                                                                  *)
(*   projects  the rows of table projects of the metadata store            *)
(*   nextId    the next AUTOINCREMENT id                                   *)
(*   dbs       the databases that exist on the backend server              *)
(*   data      per database, the parity of the writes applied to it        *)
(*   created   the databases create_mysql_database has created (history)   *)
(*   session   per client, whether its session holds the key 'owner'       *)
(*   inflight  per client, the request it has in progress                  *)
(*   last      the handler step just taken and the response it produced:   *)
(*             status and body of the public API, status and redirect      *)
(*             target or template of the operator pages (status 0: the     *)
(*             handler has not answered yet), and whether the step opened  *)
(*             a backend connection                                        *)
(*   revoked   the project name and key of the latest key replacement      *)
(*             (history)                                                   *)
(*   script, verdict, capped   the classifier and row cap under SpecSql    *)
(*   path      which executor runs the script under SpecExec: "operator"   *)
(*             (run_sql_on_project_db) or "public" (public_query)          *)
(*   script_stmts  the statements run_sql_on_project_db split the script    *)
(*             into                                                        *)
(*   sent      the texts passed to cur.execute so far, in order            *)
(*   results   the entries run_sql_on_project_db has appended so far       *)
(*   ret       what the executor returned ("none": it has not returned)    *)
(*   pname, derived   a form value of name and the database name derived   *)
(*             from it under SpecName (empty: not derived yet)             *)
(***************************************************************************)
VARIABLES projects, nextId, dbs, data, created, session, inflight, last,
          revoked, script, verdict, capped, path, script_stmts, sent, results,
          ret,
          pname, derived

sqlvars == <<script, verdict, capped>>
execvars == <<path, script_stmts, sent, results, ret>>

\* run_sql_on_project_db has not returned
NotReturned == [kind |-> "none"]
\* the tuple (success, message or rows) that run_sql_on_project_db returns
Returned(success, message, rows) ==
    [kind |-> "return", success |-> success, message |-> message, rows |-> rows]
\* an exception left the function
Raised == [kind |-> "raise"]
namevars == <<pname, derived>>
mainvars == <<projects, nextId, dbs, data, created, session, inflight, last,
              revoked>>
vars == <<projects, nextId, dbs, data, created, session, inflight, last,
          revoked, script, verdict, capped, path, script_stmts, sent, results,
          ret,
          pname, derived>>

Clients == {"c1", "c2"}

\* OWNER_USERNAME, OWNER_PASSWORD (the defaults)
OWNER_USERNAME == <<"o","w","n","e","r">>
OWNER_PASSWORD == <<"1","2","3","4">>

UserInputs == { <<" ">> \o OWNER_USERNAME, <<"g">> }
PassInputs == { OWNER_PASSWORD, <<"0">> }

\* form and URL inputs
NameInputs == { <<>>, <<"b">>, <<"a","!">>, <<" ","a","!">>, <<"a","_">> }
PasswordInputs == { <<>>, <<"p">> }
\* the two values the form of the dashboard offers for privacy
Private == <<"P","r","i","v","a","t","e">>
Publish == <<"P","u","b","l","i","s","h">>
StoredNames == { strip(n) : n \in NameInputs } \ { <<>> }

\* the api_key column before a key is generated
NULL == "<NULL>"
\* data.get("api_key") when the body has no api_key
None == "<None>"
\* secrets.token_hex(28) draws one of these
Keys == { "k1", "k2" }
KeyInputs == Keys \cup { None, "" }

Text(chunks) == [kind |-> "text", text |-> Flatten(chunks)]
Sel == <<"s","e","l","e","c","t">>
\* the value of key "sql" in the JSON body: absent, null or a string
SqlInputs ==
    { [kind |-> "absent"], [kind |-> "null"],
      Text(<< <<" ">> >>), Text(<< <<"x">> >>),
      Text(<< <<" ">>, Sel, <<";">> >>), Text(<< Sel, <<";">>, <<"x">> >>) }

\* mysql_db = f"mpdb_proj_{safe_name}", safe_name = re.sub(r'[^A-Za-z0-9_]', '_', name)
DbPrefix == <<"m","p","d","b","_","p","r","o","j","_">>
\* (mutant) the substitution that removes the characters instead
safe_name_removed(name) == SelectSeq(name, IsWordChar)

safe_name(name) == [i \in 1..Len(name) |-> IF IsWordChar(name[i]) THEN name[i] ELSE "_"]
mysql_db_name(name) == DbPrefix \o safe_name(name)

AllDbs == { mysql_db_name(n) : n \in StoredNames }

Idle == [pc |-> "idle"]

NoPair == [name |-> << >>, key |-> NULL]

\* A step of the public API also records two facts about the call: whether
\* it carried a non-empty api_key and a non-empty sql, and whether a row had
\* its name, its key and privacy 'Publish' at the lookup.
PublicStep(status, body, conn, nonempty, matched) ==
    [op |-> "public_query", status |-> status, body |-> body, conn |-> conn,
     nonempty |-> nonempty, matched |-> matched]

Step(op, status, body, conn) ==
    [op |-> op, status |-> status, body |-> body, conn |-> conn,
     nonempty |-> FALSE, matched |-> FALSE]

\* the call carries a non-empty api_key and a non-empty sql
NonEmptyInput(k, sqlin) ==
    /\ k \notin { None, "" }
    /\ sqlin.kind = "text"
    /\ strip(sqlin.text) # << >>

\* a row with this name, this key and privacy 'Publish', all three at once
Matches(rows, n, k) ==
    \E q \in rows : q.name = n /\ q.api_key = k /\ q.privacy = Publish

Init ==
    /\ projects = {}
    /\ nextId = 1
    /\ dbs = {}
    /\ data = [d \in AllDbs |-> 0]
    /\ created = {}
    /\ session = [c \in Clients |-> FALSE]
    /\ inflight = [c \in Clients |-> Idle]
    /\ last = Step("start", 0, "", FALSE)
    /\ revoked = NoPair
    /\ script = << >>
    /\ verdict = "none"
    /\ capped = "none"
    /\ path = "none"
    /\ script_stmts = << >>
    /\ sent = << >>
    /\ results = << >>
    /\ ret = NotReturned
    /\ pname = << >>
    /\ derived = << >>

(***************************************************************************)
(* login, logout                                                           *)
(***************************************************************************)
Login(c, u, p) ==
    /\ inflight[c].pc = "idle"
    /\ IF strip(u) = OWNER_USERNAME /\ strip(p) = OWNER_PASSWORD
       THEN /\ session' = [session EXCEPT ![c] = TRUE]
            /\ last' = Step("login", 302, "dashboard", FALSE)
       ELSE /\ session' = session
            /\ last' = Step("login", 302, "login", FALSE)
    /\ UNCHANGED <<projects, nextId, dbs, data, created, inflight, revoked, sqlvars, execvars, namevars>>

Logout(c) ==
    /\ inflight[c].pc = "idle"
    /\ session' = [session EXCEPT ![c] = FALSE]
    /\ last' = Step("logout", 302, "login", FALSE)
    /\ UNCHANGED <<projects, nextId, dbs, data, created, inflight, revoked, sqlvars, execvars, namevars>>

(***************************************************************************)
(* create_project: the handler up to and including create_mysql_database,  *)
(* then the INSERT into the metadata store.  `ok` is whether the backend   *)
(* executes CREATE DATABASE IF NOT EXISTS without raising.                 *)
(***************************************************************************)
\* (mutant) the handler that goes on to the insert when create_mysql_database
\* raised
CreateProjectBegin_ignore_error(c, name, password, privacy) ==
    /\ inflight[c].pc = "idle"
    /\ IF ~session[c]
       THEN /\ last' = Step("create_project", 302, "login", FALSE)
            /\ UNCHANGED <<dbs, created, inflight>>
       ELSE IF strip(name) = << >> \/ strip(password) = << >>
       THEN /\ last' = Step("create_project", 302, "dashboard", FALSE)
            /\ UNCHANGED <<dbs, created, inflight>>
       ELSE /\ \/ UNCHANGED <<dbs, created>>
               \/ /\ dbs' = dbs \cup { mysql_db_name(strip(name)) }
                  /\ created' = created \cup { mysql_db_name(strip(name)) }
            /\ inflight' = [inflight EXCEPT ![c] =
                   [pc |-> "cp_insert", name |-> strip(name),
                    password |-> strip(password), privacy |-> strip(privacy),
                    mysql_db |-> mysql_db_name(strip(name))]]
            /\ last' = Step("create_project", 0, "", TRUE)
    /\ UNCHANGED <<projects, nextId, data, session, revoked, sqlvars, execvars, namevars>>

CreateProjectBegin(c, name, password, privacy) ==
    /\ inflight[c].pc = "idle"
    /\ IF ~session[c]
       THEN /\ last' = Step("create_project", 302, "login", FALSE)
            /\ UNCHANGED <<dbs, created, inflight>>
       ELSE IF strip(name) = << >> \/ strip(password) = << >>
       THEN /\ last' = Step("create_project", 302, "dashboard", FALSE)
            /\ UNCHANGED <<dbs, created, inflight>>
       ELSE \/ \* create_mysql_database raises
               /\ last' = Step("create_project", 302, "dashboard", TRUE)
               /\ UNCHANGED <<dbs, created, inflight>>
            \/ \* CREATE DATABASE IF NOT EXISTS succeeds
               /\ dbs' = dbs \cup { mysql_db_name(strip(name)) }
               /\ created' = created \cup { mysql_db_name(strip(name)) }
               /\ inflight' = [inflight EXCEPT ![c] =
                      [pc |-> "cp_insert", name |-> strip(name),
                       password |-> strip(password), privacy |-> strip(privacy),
                       mysql_db |-> mysql_db_name(strip(name))]]
               /\ last' = Step("create_project", 0, "", TRUE)
    /\ UNCHANGED <<projects, nextId, data, session, revoked, sqlvars, execvars, namevars>>

\* (mutant) the insert without the UNIQUE constraint on name
insert_project_not_unique(rows, id, r) ==
    rows \cup { [id |-> id, name |-> r.name, password |-> r.password,
                 privacy |-> r.privacy, mysql_db |-> r.mysql_db,
                 api_key |-> NULL] }

\* INSERT INTO projects (name,password,privacy,mysql_db): column name is UNIQUE,
\* the violation raises and is caught; id is AUTOINCREMENT, api_key is NULL
insert_project(rows, id, r) ==
    IF \E q \in rows : q.name = r.name
    THEN rows
    ELSE rows \cup { [id |-> id, name |-> r.name, password |-> r.password,
                      privacy |-> r.privacy, mysql_db |-> r.mysql_db,
                      api_key |-> NULL] }

CreateProjectInsert(c) ==
    /\ inflight[c].pc = "cp_insert"
    /\ projects' = insert_project(projects, nextId, inflight[c])
    /\ nextId' = IF projects' = projects THEN nextId ELSE nextId + 1
    /\ inflight' = [inflight EXCEPT ![c] = Idle]
    /\ last' = Step("create_project", 302,
                    IF projects' = projects THEN "dashboard: Error saving project meta"
                    ELSE "dashboard: created", FALSE)
    /\ UNCHANGED <<dbs, data, created, session, revoked, sqlvars, execvars, namevars>>

(***************************************************************************)
(* generate_jumbo                                                          *)
(***************************************************************************)
\* (mutant) the update that keeps a key the project already has
set_api_key_if_null(rows, pid, key) ==
    { IF q.id = pid /\ q.api_key = NULL THEN [q EXCEPT !.api_key = key] ELSE q :
        q \in rows }

\* (mutant) the update without its WHERE clause
set_api_key_all(rows, pid, key) ==
    { [q EXCEPT !.api_key = key] : q \in rows }

\* UPDATE projects SET api_key=? WHERE id=?
set_api_key(rows, pid, key) ==
    { IF q.id = pid THEN [q EXCEPT !.api_key = key] ELSE q : q \in rows }

\* (mutant) the handler that accepts the owner flag of any session
GenerateJumbo_any_session(c, pid, key) ==
    /\ inflight[c].pc = "idle"
    /\ IF ~\E d \in Clients : session[d]
       THEN /\ last' = Step("generate_jumbo", 302, "login", FALSE)
            /\ UNCHANGED <<projects, revoked>>
       ELSE IF ~\E q \in projects : q.id = pid
       THEN /\ last' = Step("generate_jumbo", 302, "dashboard", FALSE)
            /\ UNCHANGED <<projects, revoked>>
       ELSE /\ projects' = set_api_key(projects, pid, key)
            /\ last' = Step("generate_jumbo", 302, "project_view", FALSE)
            /\ LET old == CHOOSE q \in projects : q.id = pid
               IN  revoked' = IF old.api_key # NULL /\ old.api_key # key
                              THEN [name |-> old.name, key |-> old.api_key]
                              ELSE revoked
    /\ UNCHANGED <<nextId, dbs, data, created, session, inflight, sqlvars, execvars, namevars>>

GenerateJumbo(c, pid, key) ==
    /\ inflight[c].pc = "idle"
    /\ IF ~session[c]
       THEN /\ last' = Step("generate_jumbo", 302, "login", FALSE)
            /\ UNCHANGED <<projects, revoked>>
       ELSE IF ~\E q \in projects : q.id = pid
       THEN /\ last' = Step("generate_jumbo", 302, "dashboard", FALSE)
            /\ UNCHANGED <<projects, revoked>>
       ELSE /\ projects' = set_api_key(projects, pid, key)
            /\ last' = Step("generate_jumbo", 302, "project_view", FALSE)
            /\ LET old == CHOOSE q \in projects : q.id = pid
               IN  revoked' = IF old.api_key # NULL /\ old.api_key # key
                              THEN [name |-> old.name, key |-> old.api_key]
                              ELSE revoked
    /\ UNCHANGED <<nextId, dbs, data, created, session, inflight, sqlvars, execvars, namevars>>

(***************************************************************************)
(* The backend.  A statement that starts with 'select' reads; any other    *)
(* statement, run with the administrator's credentials, may leave the      *)
(* server as it is, write to the connected database or drop it.            *)
(***************************************************************************)
EffectsOf(stmt, effects) == IF is_select_stmt(stmt) THEN { "none" } ELSE effects

\* the server state <<dbs, data>> after statements 1..k took the effects
\* effs[1..k] on a connection to db
RECURSIVE run_effects(_, _, _, _, _)
run_effects(db, effs, k, D, V) ==
    IF k = 0 THEN <<D, V>>
    ELSE LET before == run_effects(db, effs, k - 1, D, V)
             D1 == before[1]
             V1 == before[2]
         IN  IF db \notin D1 \/ effs[k] = "none" THEN before
             ELSE IF effs[k] = "write"
             THEN <<D1, [V1 EXCEPT ![db] = 1 - V1[db]]>>
             ELSE <<D1 \ {db}, [V1 EXCEPT ![db] = 0]>>

(***************************************************************************)
(* project_execute with run_sql_on_project_db.  The statements before      *)
(* statement `fail` execute, each with one of its possible effects;        *)
(* statement `fail` raises (fail = number of statements + 1: none does).   *)
(***************************************************************************)
ProjectExecute(c, pid, sql, effects) ==
    /\ inflight[c].pc = "idle"
    /\ IF ~session[c]
       THEN /\ last' = Step("project_execute", 302, "login", FALSE)
            /\ UNCHANGED <<dbs, data>>
       ELSE IF strip(sql) = << >>
       THEN /\ last' = Step("project_execute", 302, "project_view", FALSE)
            /\ UNCHANGED <<dbs, data>>
       ELSE IF ~\E q \in projects : q.id = pid
       THEN /\ last' = Step("project_execute", 302, "dashboard", FALSE)
            /\ UNCHANGED <<dbs, data>>
       ELSE LET proj == CHOOSE q \in projects : q.id = pid
                stmts == statements(strip(sql))
            IN  \/ \* pymysql.connect raises, outside the try block
                   /\ last' = Step("project_execute", 500, "Internal Server Error", TRUE)
                   /\ UNCHANGED <<dbs, data>>
                \/ /\ proj.mysql_db \in dbs
                   /\ \E fail \in 1..(Len(stmts) + 1) :
                      \E effs \in [1..(fail - 1) -> effects] :
                         /\ \A i \in 1..(fail - 1) : effs[i] \in EffectsOf(stmts[i], effects)
                         /\ LET after == run_effects(proj.mysql_db, effs, fail - 1, dbs, data)
                            IN  /\ dbs' = after[1]
                                /\ data' = after[2]
                         /\ last' = IF fail <= Len(stmts)
                                    THEN Step("project_execute", 302, "project_view", TRUE)
                                    ELSE Step("project_execute", 200, "sql_result", TRUE)
    /\ UNCHANGED <<projects, nextId, created, session, inflight, revoked, sqlvars, execvars, namevars>>

(***************************************************************************)
(* public_query                                                            *)
(***************************************************************************)
Required == "api_key and sql (SELECT) required"
AccessDenied == "Invalid key or project not published"
OnlySelect == "Only SELECT statements allowed on public API"

\* (mutant) the lookup without the privacy condition
lookup_any_privacy(rows, project_name, api_key) ==
    { q \in rows : /\ q.name = project_name
                   /\ q.api_key # NULL /\ q.api_key = api_key }

\* SELECT * FROM projects WHERE name=? AND api_key=? AND privacy='Publish'
lookup_published(rows, project_name, api_key) ==
    { q \in rows : /\ q.name = project_name
                   /\ q.api_key # NULL /\ q.api_key = api_key
                   /\ q.privacy = Publish }

\* (mutant) the gate that tells an unknown project name from a wrong key
public_query_gate_404(rows, project_name, api_key, sqlin) ==
    IF sqlin.kind = "null"
    THEN [status |-> 500, body |-> "Internal Server Error"]
    ELSE LET sql == IF sqlin.kind = "absent" THEN << >> ELSE strip(sqlin.text)
             found == lookup_published(rows, project_name, api_key)
         IN  IF api_key \in { None, "" } \/ sql = << >>
             THEN [status |-> 400, body |-> Required]
             ELSE IF ~\E q \in rows : q.name = project_name
             THEN [status |-> 404, body |-> "Project not found"]
             ELSE IF found = {}
             THEN [status |-> 403, body |-> AccessDenied]
             ELSE IF ~is_select_only(sql)
             THEN [status |-> 400, body |-> OnlySelect]
             ELSE [status |-> 0, body |-> "",
                   mysql_db |-> (CHOOSE q \in found : TRUE).mysql_db,
                   sql |-> row_cap(sql)]

\* lines 254-271: the response when the call ends before the backend is
\* reached, or status 0 with the database to connect to and the text to
\* execute
public_query_gate(rows, project_name, api_key, sqlin) ==
    IF sqlin.kind = "null"
    THEN \* None.strip() raises AttributeError
         [status |-> 500, body |-> "Internal Server Error"]
    ELSE LET sql == IF sqlin.kind = "absent" THEN << >> ELSE strip(sqlin.text)
             found == lookup_published(rows, project_name, api_key)
         IN  IF api_key \in { None, "" } \/ sql = << >>
             THEN [status |-> 400, body |-> Required]
             ELSE IF found = {}
             THEN [status |-> 403, body |-> AccessDenied]
             ELSE IF ~is_select_only(sql)
             THEN [status |-> 400, body |-> OnlySelect]
             ELSE [status |-> 0, body |-> "",
                   mysql_db |-> (CHOOSE q \in found : TRUE).mysql_db,
                   sql |-> row_cap(sql)]

\* (mutant) the handler that connects before it runs the classifier
PublicQuery_connect_first(c, project_name, api_key, sqlin) ==
    /\ inflight[c].pc = "idle"
    /\ LET g == public_query_gate(projects, project_name, api_key, sqlin)
           nonempty == NonEmptyInput(api_key, sqlin)
           matched == Matches(projects, project_name, api_key)
       IN  IF g.status # 0
           THEN last' = PublicStep(g.status, g.body, g.body = OnlySelect,
                                   nonempty, matched)
           ELSE \/ last' = PublicStep(500, "backend error", TRUE, nonempty, matched)
                \/ /\ g.mysql_db \in dbs
                   /\ last' = PublicStep(200, "rows", TRUE, nonempty, matched)
    /\ UNCHANGED <<projects, nextId, dbs, data, created, session, inflight, revoked,
                   sqlvars, execvars, namevars>>

\* lines 272-283 follow the gate: connect, execute the text, fetch the rows;
\* any exception gives 500 with its message
PublicQuery(c, project_name, api_key, sqlin) ==
    /\ inflight[c].pc = "idle"
    /\ LET g == public_query_gate(projects, project_name, api_key, sqlin)
           nonempty == NonEmptyInput(api_key, sqlin)
           matched == Matches(projects, project_name, api_key)
       IN  IF g.status # 0
           THEN last' = PublicStep(g.status, g.body, FALSE, nonempty, matched)
           ELSE \/ last' = PublicStep(500, "backend error", TRUE, nonempty, matched)
                \/ /\ g.mysql_db \in dbs
                   /\ last' = PublicStep(200, "rows", TRUE, nonempty, matched)
    /\ UNCHANGED <<projects, nextId, dbs, data, created, session, inflight, revoked,
                   sqlvars, execvars, namevars>>

(***************************************************************************)
(* The requests, over the domains D of their inputs.                       *)
(***************************************************************************)
NextFor(D) ==
    \/ \E c \in D.clients, u \in UserInputs, p \in PassInputs : Login(c, u, p)
    \/ \E c \in D.clients : Logout(c)
    \/ \E c \in D.clients, n \in D.names, pw \in PasswordInputs, pr \in D.privacies :
          CreateProjectBegin(c, n, pw, pr)
    \/ \E c \in D.clients : CreateProjectInsert(c)
    \/ \E c \in D.clients, pid \in D.pids, key \in D.keys : GenerateJumbo(c, pid, key)
    \/ \E c \in D.clients, pid \in D.pids, sql \in D.opsql :
          ProjectExecute(c, pid, sql, D.effects)
    \/ \E c \in D.clients, n \in D.pubnames, k \in D.keys \cup { None, "" },
          s \in D.pubsql : PublicQuery(c, n, k, s)

\* one client, two projects, both privacy values, two keys, every public input
AccessDomain ==
    [clients |-> {"c1"},
     names |-> { <<>>, <<"b">>, <<"a","!">> },
     privacies |-> { Private, <<" ">> \o Publish },
     pids |-> 1..3,
     keys |-> Keys,
     opsql |-> { <<" ">>, <<"x">>, Sel },
     effects |-> { "none", "write" },
     pubnames |-> { <<"b">>, <<"a","!">>, <<"z">> },
     pubsql |-> SqlInputs]

\* two clients whose requests interleave, three names of which two share a
\* database name
ProvisionDomain ==
    [clients |-> Clients,
     names |-> { <<>>, <<" ","a","!">>, <<"a","_">> },
     privacies |-> { Publish, lower(Publish) },
     pids |-> 1..3,
     keys |-> { "k1" },
     opsql |-> { <<"x">>, Sel \o <<";","x">> },
     effects |-> { "none", "drop" },
     pubnames |-> { <<"a","_">> },
     pubsql |-> { Text(<< Sel >>) }]

Next == NextFor(AccessDomain)

Spec == Init /\ [][Next]_vars

NextProvision == NextFor(ProvisionDomain)

SpecProvision == Init /\ [][NextProvision]_vars

(***************************************************************************)
(* The classifier and the row cap on bounded texts.                        *)
(***************************************************************************)
SqlInit ==
    /\ projects = {}
    /\ nextId = 1
    /\ dbs = {}
    /\ data = [d \in AllDbs |-> 0]
    /\ created = {}
    /\ session = [c \in Clients |-> FALSE]
    /\ inflight = [c \in Clients |-> Idle]
    /\ last = Step("start", 0, "", FALSE)
    /\ revoked = NoPair
    /\ script \in Texts(MaxChunks)
    /\ verdict = "none"
    /\ capped = "none"
    /\ path = "none"
    /\ script_stmts = << >>
    /\ sent = << >>
    /\ results = << >>
    /\ ret = NotReturned
    /\ pname = << >>
    /\ derived = << >>

\* is_select_only applied to the script as given
Classify ==
    /\ verdict = "none"
    /\ verdict' = IF is_select_only(script) THEN "accepted" ELSE "rejected"
    /\ UNCHANGED <<script, capped, mainvars, execvars, namevars>>

\* the public path after resolution: sql = sql.strip(), the classifier gate,
\* then the LIMIT append
Cap ==
    /\ capped = "none"
    /\ strip(script) # << >>
    /\ is_select_only(strip(script))
    /\ capped' = row_cap(strip(script))
    /\ UNCHANGED <<script, verdict, mainvars, execvars, namevars>>

SqlNext == Classify \/ Cap

SpecSql == SqlInit /\ [][SqlNext]_vars

(***************************************************************************)
(* C3, C6: the classifier and the row cap as pure functions (SpecSql).     *)
(***************************************************************************)
\* The pieces of S between separators, as pairs of positions (first, last);
\* an empty piece has last = first - 1.
Pieces(S) ==
    { ab \in (1..(Len(S) + 1)) \X (0..Len(S)) :
        /\ ab[1] <= ab[2] + 1
        /\ IF ab[1] = 1 THEN TRUE ELSE S[ab[1] - 1] = ";"
        /\ IF ab[2] = Len(S) THEN TRUE ELSE S[ab[2] + 1] = ";"
        /\ \A i \in ab[1]..ab[2] : S[i] # ";" }

PieceNonBlank(S, ab) == \E i \in ab[1]..ab[2] : ~IsSpace(S[i])

\* the position of the first character of the piece's trimmed text
PieceFirst(S, ab) ==
    CHOOSE f \in ab[1]..ab[2] :
        ~IsSpace(S[f]) /\ \A i \in ab[1]..(f - 1) : IsSpace(S[i])

\* the piece's trimmed text starts with 'select', case-insensitively
PieceHasSelectPrefix(S, ab) ==
    LET f == PieceFirst(S, ab)
    IN  /\ f + 5 <= ab[2]
        /\ \A k \in 0..5 : LowerChar(S[f + k]) = SelectWord[k + 1]

\* the character after the prefix, if there is one, is not a word character
PieceSelectEndsWord(S, ab) ==
    LET f == PieceFirst(S, ab)
    IN  IF f + 5 = ab[2] THEN TRUE ELSE ~IsWordChar(S[f + 6])

NonBlankPieces(S) == { ab \in Pieces(S) : PieceNonBlank(S, ab) }

\* C3 as stated: is_select_only(S) is true iff S has at least one non-blank
\* statement and every statement's trimmed text starts with the prefix
\* 'select', case-insensitively.
C3_PrefixIff ==
    verdict # "none" =>
        ( verdict = "accepted" <=>
            /\ NonBlankPieces(script) # {}
            /\ \A ab \in NonBlankPieces(script) : PieceHasSelectPrefix(script, ab) )

\* C3 amended: ... starts with 'select', case-insensitively, and the prefix
\* is followed by the end of the statement or by a non-word character.
C3_WordPrefixIff ==
    verdict # "none" =>
        ( verdict = "accepted" <=>
            /\ NonBlankPieces(script) # {}
            /\ \A ab \in NonBlankPieces(script) :
                  /\ PieceHasSelectPrefix(script, ab)
                  /\ PieceSelectEndsWord(script, ab) )

\* a script of two statements in mixed case is accepted
C3_Witness ==
    /\ verdict = "accepted"
    /\ Cardinality(NonBlankPieces(script)) = 2
    /\ \E i \in 1..Len(script) : script[i] = "S"

\* C6 as stated: for an accepted script without a 'limit' token, the text
\* after the LIMIT 500 append splits into as many non-empty statements as
\* the script.
C6_SameStatementCount ==
    (capped # "none" /\ ~contains(lower(strip(script)), LimitWord)) =>
        Len(statements(capped)) = Len(statements(strip(script)))

(***************************************************************************)
(* C1, C2, C4, C5, C7: the public path (Spec).                             *)
(***************************************************************************)
\* the step is a public query that answered with this status and body
Answered(l, status, body) ==
    l.op = "public_query" /\ l.status = status /\ l.body = body

\* the response of a call that got past project resolution
PastResolution(l) ==
    l.op = "public_query" /\ (l.conn \/ l.body = OnlySelect)

\* C1: a public query with non-empty api_key and sql gets past project
\* resolution only if, at the lookup, some project has the given name, the
\* given key and privacy 'Publish' at once; a project without a generated key
\* (api_key NULL) is never the one resolved.
C1_ResolvedOnlyIfAllThree ==
    [][ PastResolution(last') =>
          \A c \in AccessDomain.clients, n \in AccessDomain.pubnames,
             k \in KeyInputs, sqlin \in SqlInputs :
             (PublicQuery(c, n, k, sqlin) /\ NonEmptyInput(k, sqlin)) =>
                 /\ Matches(projects, n, k)
                 /\ \A q \in projects : q.name = n => q.api_key # NULL ]_vars

\* a query was answered with rows in a state where one project is published
\* with a key and another project has no key
C1_Witness ==
    /\ Answered(last, 200, "rows")
    /\ \E q \in projects : q.api_key = NULL
    /\ \E q \in projects : q.api_key # NULL /\ q.privacy = Publish

\* C2: every public query with non-empty api_key and sql that fails
\* resolution gets the same response, 403 'Invalid key or project not
\* published', whichever condition failed and whatever the sql is.
C2_DenialIsUniform ==
    (last.op = "public_query" /\ last.nonempty /\ ~last.matched) =>
        (Answered(last, 403, AccessDenied) /\ ~last.conn)

\* a denial in a state that holds a published project with a key, a project
\* that is not published and a project without a key
C2_Witness ==
    /\ Answered(last, 403, AccessDenied)
    /\ last.nonempty /\ ~last.matched
    /\ \E q \in projects : q.privacy = Publish /\ q.api_key # NULL
    /\ \E q \in projects : q.privacy # Publish \/ q.api_key = NULL

\* api_key or sql is missing or empty
MissingInput(k, sqlin) ==
    \/ k \in { None, "" }
    \/ sqlin.kind \in { "absent", "null" }
    \/ (sqlin.kind = "text" /\ strip(sqlin.text) = << >>)

\* C4: every public query call ends in exactly one of five outcomes, in this
\* precedence: 400 when api_key or sql is missing or empty; else 403 when
\* resolution fails; else 400 'Only SELECT statements allowed on public API'
\* when the classifier rejects; else 500 with the backend error; else 200.
C4_FiveOutcomesInOrder ==
    [][ last'.op = "public_query" =>
          \A c \in AccessDomain.clients, n \in AccessDomain.pubnames,
             k \in KeyInputs, sqlin \in SqlInputs :
             PublicQuery(c, n, k, sqlin) =>
                 IF MissingInput(k, sqlin)
                 THEN Answered(last', 400, Required)
                 ELSE IF ~Matches(projects, n, k)
                 THEN Answered(last', 403, AccessDenied)
                 ELSE IF ~is_select_only(strip(sqlin.text))
                 THEN Answered(last', 400, OnlySelect)
                 ELSE \/ Answered(last', 500, "backend error")
                      \/ Answered(last', 200, "rows") ]_vars

\* the response of a public query that was rejected
Rejected(l) ==
    /\ l.op = "public_query"
    /\ \/ l.status = 403
       \/ l.status = 400

\* C5: a rejected public query call (400 missing input, 403 failed
\* resolution, 400 not read-only) opens no backend connection and leaves the
\* backend databases and the metadata rows as they were.
\* (Stated on the steps that answer with a rejection and open a connection
\* or change a store: none of them is a public query.)
C5_RejectionTouchesNothing ==
    [][ ( /\ Rejected(last')
          /\ (last'.conn \/ ~UNCHANGED <<projects, nextId, dbs, data, created>>) ) =>
          \A c \in AccessDomain.clients, n \in AccessDomain.pubnames,
             k \in KeyInputs, sqlin \in SqlInputs :
             ~PublicQuery(c, n, k, sqlin) ]_vars

\* a non-select text was rejected for a published project whose database
\* holds written data
C5_Witness ==
    /\ Answered(last, 400, OnlySelect)
    /\ \E q \in projects : q.mysql_db \in dbs /\ data[q.mysql_db] = 1

\* the keys that resolve the project named n
ResolvingKeys(rows, n) == { k \in Keys : lookup_published(rows, n, k) # {} }

\* C7: once generate-key has replaced P's key k1 by a different key, a public
\* query that presents k1 for P is denied with 403; at every moment at most
\* one key resolves P; a project that has a key never returns to having none.
C7_PreviousKeyDenied ==
    /\ [][ /\ (revoked # NoPair /\ last'.op = "public_query") =>
                \A c \in AccessDomain.clients, sqlin \in SqlInputs :
                   ( /\ NonEmptyInput(revoked.key, sqlin)
                     /\ PublicQuery(c, revoked.name, revoked.key, sqlin) ) =>
                       Answered(last', 403, AccessDenied)
           /\ \A q \in projects : q.api_key # NULL =>
                \E r \in projects' : r.id = q.id /\ r.api_key # NULL
           /\ \A q \in projects, r \in projects' :
                (q.id = r.id /\ q.api_key # NULL /\ r.api_key # q.api_key) =>
                    /\ lookup_published(projects', q.name, q.api_key) = {}
                    /\ revoked' = [name |-> q.name, key |-> q.api_key] ]_vars
    /\ [](\A n \in StoredNames : Cardinality(ResolvingKeys(projects, n)) <= 1)

\* after a replacement of the key of a published project, a denial
C7_Witness ==
    /\ revoked # NoPair
    /\ Answered(last, 403, AccessDenied)
    /\ last.nonempty
    /\ \E q \in projects :
          q.name = revoked.name /\ q.privacy = Publish /\ q.api_key # revoked.key

(***************************************************************************)
(* C8, C9, C10: provisioning and the operator session (SpecProvision).     *)
(***************************************************************************)
\* C8: in every reachable state, under any interleaving of create-project
\* requests, no two rows have the same name; an insert whose name already
\* exists adds no row and leaves every row as it was.
C8_NamesUnique ==
    /\ [](\A p \in projects, q \in projects : p.name = q.name => p = q)
    /\ [][ \A c \in Clients :
             ( /\ inflight[c].pc = "cp_insert"
               /\ inflight'[c].pc = "idle"
               /\ \E q \in projects : q.name = inflight[c].name ) =>
                 projects' = projects /\ nextId' = nextId ]_vars

\* an insert was refused for its name while two projects exist
C8_Witness ==
    /\ last = Step("create_project", 302, "dashboard: Error saving project meta", FALSE)
    /\ Cardinality(projects) >= 2

\* C9 as stated: every row names a backend database that has been created,
\* so that a query resolved through the row finds its database on the server.
C9_RowsNameExistingDb ==
    \A p \in projects : p.mysql_db \in created /\ p.mysql_db \in dbs

\* C9 amended: every row, and every insert in progress, names a backend
\* database that create_mysql_database has created before.
C9_RowsNameCreatedDb ==
    /\ \A p \in projects : p.mysql_db \in created
    /\ \A c \in Clients :
          inflight[c].pc = "cp_insert" => inflight[c].mysql_db \in created

\* a row whose database was created and has since been dropped
C9_Witness ==
    \E p \in projects : p.mysql_db \in created /\ p.mysql_db \notin dbs

\* C10: create_project, project_execute and generate_jumbo change neither the
\* metadata store nor a backend database, and start no insert, unless the
\* session of the request holds the owner flag; the flag is set only by a
\* login with the owner's username and password and is cleared by logout.
C10_OperatorOnly ==
    [][ /\ ( \/ ~UNCHANGED <<projects, nextId, dbs, data, created>>
             \/ \E c \in Clients :
                   inflight[c].pc = "idle" /\ inflight'[c].pc = "cp_insert" ) =>
              \A c \in Clients :
                 /\ \A n \in ProvisionDomain.names, pw \in PasswordInputs,
                       pr \in ProvisionDomain.privacies :
                       CreateProjectBegin(c, n, pw, pr) => session[c]
                 /\ \A pid \in ProvisionDomain.pids, sql \in ProvisionDomain.opsql :
                       ProjectExecute(c, pid, sql, ProvisionDomain.effects) => session[c]
                 /\ \A pid \in ProvisionDomain.pids, key \in ProvisionDomain.keys :
                       GenerateJumbo(c, pid, key) => session[c]
        /\ \A c \in Clients :
              (~session[c] /\ session'[c]) =>
                  \E u \in UserInputs, p \in PassInputs :
                     /\ Login(c, u, p)
                     /\ strip(u) = OWNER_USERNAME /\ strip(p) = OWNER_PASSWORD
        /\ \A c \in Clients : Logout(c) => ~session'[c]
        /\ \A c \in Clients : (session[c] /\ ~session'[c]) => Logout(c) ]_vars

\* a key generation was refused for lack of the flag while the other client
\* holds it and a project exists
C10_Witness ==
    /\ last = Step("generate_jumbo", 302, "login", FALSE)
    /\ \E c \in Clients : session[c]
    /\ \E c \in Clients : ~session[c]
    /\ projects # {}

(***************************************************************************)
(* C11: one backend database per project (SpecProvision).                  *)
(***************************************************************************)
\* C11: in every reachable state no two distinct projects have the same
\* backend database name: a second name that sanitizes to the database name
\* of an existing project is rejected at creation.
C11_OneDbPerProject ==
    \A p \in projects, q \in projects : p.mysql_db = q.mysql_db => p = q

(***************************************************************************)
(* The two executors on bounded scripts: run_sql_on_project_db, statement  *)
(* by statement, and the execution block of public_query (SpecExec).       *)
(***************************************************************************)
\* (mutant) the loop that returns the rows fetched so far with the failure
RunSqlStatement_partial ==
    /\ path = "operator"
    /\ ret = NotReturned
    /\ Len(sent) < Len(script_stmts)
    /\ LET s == script_stmts[Len(sent) + 1]
       IN  /\ sent' = Append(sent, s)
           /\ \/ /\ ret' = Returned(FALSE, "str(e)", results)
                 /\ UNCHANGED results
              \/ /\ ret' = ret
                 /\ results' = IF is_select_stmt(s)
                               THEN Append(results, [statement |-> s, rows |-> "rows"])
                               ELSE results
    /\ UNCHANGED <<path, script_stmts, mainvars, sqlvars, namevars>>

\* lines 84-92: connect, then split the script; a connect error is outside
\* the try block
RunSqlConnect ==
    /\ path = "none"
    /\ path' = "operator"
    /\ \/ ret' = Raised /\ UNCHANGED script_stmts
       \/ ret' = ret /\ script_stmts' = statements(script)
    /\ UNCHANGED <<sent, results, mainvars, sqlvars, namevars>>

\* lines 94-99 and 101-102: one turn of the loop; cur.execute(s) or
\* cur.fetchall() raises, or the statement runs and a select's rows are kept
RunSqlStatement ==
    /\ path = "operator"
    /\ ret = NotReturned
    /\ Len(sent) < Len(script_stmts)
    /\ LET s == script_stmts[Len(sent) + 1]
       IN  /\ sent' = Append(sent, s)
           /\ \/ /\ ret' = Returned(FALSE, "str(e)", << >>)
                 /\ UNCHANGED results
              \/ /\ ret' = ret
                 /\ results' = IF is_select_stmt(s)
                               THEN Append(results, [statement |-> s, rows |-> "rows"])
                               ELSE results
    /\ UNCHANGED <<path, script_stmts, mainvars, sqlvars, namevars>>

\* line 100: return True, results
RunSqlReturn ==
    /\ path = "operator"
    /\ ret = NotReturned
    /\ Len(sent) = Len(script_stmts)
    /\ ret' = Returned(TRUE, "", results)
    /\ UNCHANGED <<path, script_stmts, sent, results, mainvars, sqlvars, namevars>>

\* the published project the public path resolves
ExecProject ==
    [id |-> 1, name |-> <<"b">>, password |-> <<"p">>, privacy |-> Publish,
     mysql_db |-> mysql_db_name(<<"b">>), api_key |-> "k1"]

\* lines 254-283 for a call that resolves ExecProject with the script as its
\* sql: the text that passed the gate goes to one cur.execute
PublicExecute ==
    /\ path = "none"
    /\ LET g == public_query_gate({ ExecProject }, ExecProject.name,
                                  ExecProject.api_key, [kind |-> "text", text |-> script])
       IN  /\ g.status = 0
           /\ path' = "public"
           /\ \/ \* pymysql.connect raises
                 /\ sent' = sent
                 /\ ret' = Returned(FALSE, "str(e)", << >>)
              \/ /\ sent' = << g.sql >>
                 /\ \/ ret' = Returned(FALSE, "str(e)", << >>)
                    \/ ret' = Returned(TRUE, "", << "rows" >>)
    /\ UNCHANGED <<script_stmts, results, mainvars, sqlvars, namevars>>

ExecNext == RunSqlConnect \/ RunSqlStatement \/ RunSqlReturn \/ PublicExecute

SpecExec == SqlInit /\ [][ExecNext]_vars

(***************************************************************************)
(* C12, C13: run_sql_on_project_db (SpecExec).                             *)
(***************************************************************************)
\* the trimmed text of a non-blank piece
PieceTrim(S, ab) ==
    LET f == PieceFirst(S, ab)
        l == CHOOSE l \in f..ab[2] :
                ~IsSpace(S[l]) /\ \A i \in (l + 1)..ab[2] : IsSpace(S[i])
    IN  SubSeq(S, f, l)

\* the non-blank pieces of S, trimmed, in the order of their positions
OrderedSplit(S) ==
    LET P == NonBlankPieces(S)
        n == Cardinality(P)
        f == CHOOSE f \in [1..n -> P] :
                \A i \in 1..n, j \in 1..n : i < j => f[i][1] < f[j][1]
    IN  [i \in 1..n |-> PieceTrim(S, f[i])]

\* C12: run_sql_on_project_db passes the split statements to the backend in
\* script order; when the k-th raises, nothing is executed after it and the
\* call returns failure with the error message and none of the rows fetched
\* before.
C12_AbortOnError ==
    /\ [](path = "operator" =>
            /\ Len(sent) <= Len(OrderedSplit(script))
            /\ sent = SubSeq(OrderedSplit(script), 1, Len(sent)))
    /\ []((path = "operator" /\ ret.kind = "return" /\ ~ret.success) =>
            /\ Len(sent) >= 1
            /\ ret.message = "str(e)"
            /\ ret.rows = << >>)
    /\ [][ (path = "operator" /\ ret # NotReturned) =>
             (sent' = sent /\ ret' = ret) ]_vars

\* the second statement raised after the rows of the first were fetched
C12_Witness ==
    /\ path = "operator"
    /\ ret.kind = "return" /\ ~ret.success
    /\ Len(sent) = 2
    /\ results # << >>

\* the trimmed text t starts with 'select', case-insensitively
HasSelectPrefix(t) ==
    /\ Len(t) >= Len(SelectWord)
    /\ \A k \in 1..Len(SelectWord) : LowerChar(t[k]) = SelectWord[k]

\* one {statement, rows} entry for each statement of sq that has the prefix
SelectEntries(sq) ==
    LET sel == SelectSeq(sq, HasSelectPrefix)
    IN  [i \in 1..Len(sel) |-> [statement |-> sel[i], rows |-> "rows"]]

\* C13: on success run_sql_on_project_db has executed every split statement
\* once, in script order, and returns one {statement, rows} entry, in order,
\* for exactly the statements that start with 'select' (case-insensitive); a
\* script of non-select statements only returns success with no entry.
C13_ResultShape ==
    (path = "operator" /\ ret.kind = "return" /\ ret.success) =>
        /\ sent = OrderedSplit(script)
        /\ ret.rows = SelectEntries(OrderedSplit(script))
        /\ (\A i \in 1..Len(sent) : ~HasSelectPrefix(sent[i])) => ret.rows = << >>

\* a script of a select and a non-select statement succeeded with one entry
C13_Witness ==
    /\ path = "operator"
    /\ ret.kind = "return" /\ ret.success
    /\ Len(sent) = 2
    /\ Len(ret.rows) = 1

(***************************************************************************)
(* C14, C15: the execution block of public_query (SpecExec).               *)
(***************************************************************************)
\* t holds the word 'limit' (case-insensitive) that is not part of a longer
\* word: the least a text must hold to carry a LIMIT clause
HasLimitWord(t) ==
    \E i \in 1..(Len(t) - Len(LimitWord) + 1) :
        /\ \A k \in 1..Len(LimitWord) : LowerChar(t[i + k - 1]) = LimitWord[k]
        /\ IF i = 1 THEN TRUE ELSE ~IsWordChar(t[i - 1])
        /\ IF i + Len(LimitWord) - 1 = Len(t) THEN TRUE
           ELSE ~IsWordChar(t[i + Len(LimitWord)])

\* C14: for an accepted script without the token 'limit' the public path
\* appends LIMIT 500 before execution, a script that contains 'limit' is
\* executed unmodified, and so the text the public path executes always
\* carries a limit clause.
C14_ExecutedTextIsCapped ==
    (path = "public" /\ sent # << >>) =>
        /\ IF contains(lower(strip(script)), LimitWord)
           THEN sent[1] = strip(script)
           ELSE sent[1] = rstrip_semi(strip(script)) \o LimitClause
        /\ HasLimitWord(sent[1])

\* C15: for an accepted public script the texts sent to the backend are the
\* ordered split (on ';', trimmed, non-empty) of the row-capped script, one
\* execution per statement, as on the operator path.  (A text sent is
\* compared without its closing ';'.)
C15_PublicSendsSplitStatements ==
    (path = "public" /\ sent # << >>) =>
        LET expected == OrderedSplit(row_cap(strip(script)))
        IN  /\ Len(sent) = Len(expected)
            /\ \A i \in 1..Len(sent) : strip(rstrip_semi(sent[i])) = expected[i]

(***************************************************************************)
(* C16: the privacy column (SpecProvision).                                *)
(***************************************************************************)
\* C16: in every reachable state the privacy of every stored project is
\* 'Private' or 'Publish', whatever the create-project request supplied.
C16_PrivacyIsEnumerated ==
    \A p \in projects : p.privacy \in { Private, Publish }

(***************************************************************************)
(* C17: the publication state under an operator who keeps working          *)
(* (SpecOperator).                                                         *)
(***************************************************************************)
\* one client, two projects, both privacy values
PublicationDomain ==
    [clients |-> {"c1"},
     names |-> { <<"b">>, <<"a","_">> },
     privacies |-> { Private, Publish },
     pids |-> 1..2,
     keys |-> { "k1" },
     opsql |-> { <<"x">> },
     effects |-> { "none", "write" },
     pubnames |-> { <<"b">> },
     pubsql |-> { Text(<< Sel >>) }]

NextOperator == NextFor(PublicationDomain)

\* the operator's browser keeps sending every kind of operator request, and
\* a handler that has started goes on to its end
OperatorFairness ==
    \A c \in PublicationDomain.clients :
        /\ WF_vars(\E u \in UserInputs, p \in PassInputs : Login(c, u, p))
        /\ WF_vars(\E n \in PublicationDomain.names, pw \in PasswordInputs,
                      pr \in PublicationDomain.privacies :
                      CreateProjectBegin(c, n, pw, pr))
        /\ WF_vars(CreateProjectInsert(c))
        /\ WF_vars(\E pid \in PublicationDomain.pids, key \in PublicationDomain.keys :
                      GenerateJumbo(c, pid, key))
        /\ WF_vars(\E pid \in PublicationDomain.pids, sql \in PublicationDomain.opsql :
                      ProjectExecute(c, pid, sql, PublicationDomain.effects))

SpecOperator == Init /\ [][NextOperator]_vars /\ OperatorFairness

\* the project named n is stored with privacy v
HasPrivacy(n, v) == \E p \in projects : p.name = n /\ p.privacy = v

\* C17: for every existing project, from a state where its privacy is
\* 'Private' a state where it is 'Publish' is reached through operator
\* operations, and likewise from 'Publish' back to 'Private'.
C17_PrivacyIsMutable ==
    \A n \in PublicationDomain.names :
        /\ HasPrivacy(n, Private) ~> HasPrivacy(n, Publish)
        /\ HasPrivacy(n, Publish) ~> HasPrivacy(n, Private)

(***************************************************************************)
(* C18: the frame of the metadata store (Spec).                            *)
(***************************************************************************)
\* q is the row p with, at most, another api_key
SameButKey(p, q) ==
    /\ q.id = p.id /\ q.name = p.name /\ q.mysql_db = p.mysql_db
    /\ q.password = p.password /\ q.privacy = p.privacy

\* C18: no step removes a project or changes the id, name or backend
\* database name (or password or privacy) of one; a step that changes an
\* api_key is a generate-key for that project and changes no other row;
\* operator SQL and public queries change no row.
C18_MetadataFrame ==
    [][ /\ \A p \in projects : \E q \in projects' : SameButKey(p, q)
        /\ \A p \in projects, q \in projects' :
              (q.id = p.id /\ q.api_key # p.api_key) =>
                 /\ last'.op = "generate_jumbo"
                 /\ projects' \ { q } = projects \ { p }
                 /\ \A c \in AccessDomain.clients, pid \in AccessDomain.pids,
                       key \in AccessDomain.keys :
                       GenerateJumbo(c, pid, key) => pid = p.id
        /\ last'.op \in { "project_execute", "public_query", "login", "logout" } =>
              projects' = projects ]_vars

\* a key was generated for one of two projects; the other still has none
C18_Witness ==
    /\ last = Step("generate_jumbo", 302, "project_view", FALSE)
    /\ \E p \in projects, q \in projects :
          p.id # q.id /\ p.api_key # NULL /\ q.api_key = NULL
    /\ \E d \in dbs : data[d] = 1

(***************************************************************************)
(* C19: the derivation of the database name on bounded names (SpecName).   *)
(***************************************************************************)
MaxNameChunks == 4

NameChunks ==
    { <<"M","y">>, <<" ">>, <<"P","r","o","j">>, <<"!">>, <<"_">>, <<"7">> }

Names(n) == { Flatten(cs) : cs \in UNION { [1..k -> NameChunks] : k \in 0..n } }

NameInit ==
    /\ projects = {}
    /\ nextId = 1
    /\ dbs = {}
    /\ data = [d \in AllDbs |-> 0]
    /\ created = {}
    /\ session = [c \in Clients |-> FALSE]
    /\ inflight = [c \in Clients |-> Idle]
    /\ last = Step("start", 0, "", FALSE)
    /\ revoked = NoPair
    /\ script = << >>
    /\ verdict = "none"
    /\ capped = "none"
    /\ path = "none"
    /\ script_stmts = << >>
    /\ sent = << >>
    /\ results = << >>
    /\ ret = NotReturned
    /\ pname \in Names(MaxNameChunks)
    /\ derived = << >>

\* lines 158-166: name = form value stripped, required; mysql_db derived
Derive ==
    /\ derived = << >>
    /\ strip(pname) # << >>
    /\ derived' = mysql_db_name(strip(pname))
    /\ UNCHANGED <<pname, mainvars, sqlvars, execvars>>

NameNext == Derive

SpecName == NameInit /\ [][NameNext]_vars

\* db is prefix followed by name with every character outside [A-Za-z0-9_]
\* replaced, one for one, by '_'
IsDerivedWith(prefix, name, db) ==
    /\ Len(db) = Len(prefix) + Len(name)
    /\ \A i \in 1..Len(prefix) : db[i] = prefix[i]
    /\ \A i \in 1..Len(name) :
          db[Len(prefix) + i] = IF IsWordChar(name[i]) THEN name[i] ELSE "_"
    /\ \A i \in 1..Len(db) : IsWordChar(db[i])

\* C19 as stated: the database name is 'proj_' followed by the name with
\* every character outside [A-Za-z0-9_] replaced one-for-one by '_'.
C19_ProjPrefix ==
    derived # << >> =>
        IsDerivedWith(<<"p","r","o","j","_">>, strip(pname), derived)

\* C19 amended: the prefix is 'mpdb_proj_'.
C19_MpdbProjPrefix ==
    derived # << >> =>
        IsDerivedWith(<<"m","p","d","b","_","p","r","o","j","_">>, strip(pname), derived)

\* 'My Proj!' gave 'mpdb_proj_My_Proj_'
C19_Witness ==
    /\ pname = <<"M","y"," ","P","r","o","j","!">>
    /\ derived = <<"m","p","d","b","_","p","r","o","j","_",
                   "M","y","_","P","r","o","j","_">>
====
